---- MODULE Spec2Model ----
(***************************************************************************)
(* Model of prusaslicer_anti_alias_z.py: the per-line rewrite loop of      *)
(* rewrite_prusaslicer_gcode, the segment splitter and the vertical-ray    *)
(* surface sampler.                                                        *)
(*                                                                         *)
(* Numbers.  Every length (X, Y, Z, E, F, layer Z, layer height) is an     *)
(* integer count of 1e-6 mm, so an input token with up to six decimals is  *)
(* an integer.  Values the code computes by division (sub-segment          *)
(* endpoints, E shares, interpolated surface heights) are exact rationals  *)
(* [n, d].  fmt_float prints five decimals, i.e. rounds a rational to the  *)
(* nearest multiple of Quantum = 10 units; an exact tie is rounded away    *)
(* from zero (the code rounds the binary double, whose tie direction       *)
(* depends on its representation error).                                   *)
(*                                                                         *)
(* Lines.  An input line is a record; raw = TRUE marks text taken from the *)
(* input file, raw = FALSE text synthesised by the rewriter from formatted *)
(* numbers.  Two lines are byte-identical iff the records are equal.       *)
(***************************************************************************)
EXTENDS Integers, Sequences, FiniteSets, TLC

(***************************************************************************)
(* Optional values (Python None / a value).                                *)
(***************************************************************************)
None == <<>>

Some(v) == <<v>>

IsNone(o) == o = <<>>

Get(o) == o[1]

Abs(i) == IF i < 0 THEN -i ELSE i

Sign(i) == IF i < 0 THEN -1 ELSE IF i > 0 THEN 1 ELSE 0

Max2(a, b) == IF a >= b THEN a ELSE b

Min2(a, b) == IF a <= b THEN a ELSE b

RECURSIVE GCD(_, _)
GCD(a, b) == IF b = 0 THEN a ELSE GCD(b, a % b)

(***************************************************************************)
(* Exact rationals [n, d], d > 0, in lowest terms.                         *)
(***************************************************************************)
Rat(n, d) ==
    LET s == IF d < 0 THEN -1 ELSE 1
        g == GCD(Abs(n), Abs(d))
    IN  [n |-> (s * n) \div g, d |-> (s * d) \div g]

RInt(i) == [n |-> i, d |-> 1]

RAdd(a, b) ==
    LET g == GCD(a.d, b.d)
    IN  Rat(a.n * (b.d \div g) + b.n * (a.d \div g), (a.d \div g) * b.d)

RNeg(a) == [n |-> -a.n, d |-> a.d]

RSub(a, b) == RAdd(a, RNeg(b))

RMul(a, b) ==
    LET g1 == GCD(Abs(a.n), b.d)
        g2 == GCD(Abs(b.n), a.d)
        h1 == IF g1 = 0 THEN 1 ELSE g1
        h2 == IF g2 = 0 THEN 1 ELSE g2
    IN  Rat((a.n \div h1) * (b.n \div h2), (a.d \div h2) * (b.d \div h1))

\* a / b for b # 0
RDiv(a, b) == RMul(a, Rat(b.d, b.n))

RLt(a, b) == a.n * b.d < b.n * a.d

RLe(a, b) == a.n * b.d <= b.n * a.d

RAbs(a) == [n |-> Abs(a.n), d |-> a.d]

\* floor of a rational
RFloor(a) == a.n \div a.d

(***************************************************************************)
(* fmt_float: f"{x:.5f}" with trailing zeros stripped.  The result is the  *)
(* number the printed text denotes, a multiple of Quantum.                 *)
(***************************************************************************)
Quantum == 10

fmt_float(x) ==
    LET q == x.d * Quantum
        m == (2 * Abs(x.n) + q) \div (2 * q)
    IN  Sign(x.n) * m * Quantum

(***************************************************************************)
(* Segment splitter.                                                       *)
(***************************************************************************)
\* _dist_xy squared: math.hypot(x1 - x0, y1 - y0) ** 2
dist_xy2(x0, y0, x1, y1) == (x1 - x0) * (x1 - x0) + (y1 - y0) * (y1 - y0)

\* int(math.ceil(d / max_step)) for d = sqrt(d2): the least n with n * max_step >= d
RECURSIVE CeilSteps(_, _, _)
CeilSteps(d2, max_step, n) ==
    IF n * n * max_step * max_step >= d2 THEN n ELSE CeilSteps(d2, max_step, n + 1)

\* the mutant of SplitCount: floor instead of ceil
SplitCountFloor(d2, max_step) ==
    LET c == CeilSteps(d2, max_step, 1)
    IN  IF c * c * max_step * max_step = d2 THEN c ELSE Max2(c - 1, 1)

\* n of split_extrusion_move: 1 on the early return, else ceil(d / max_step)
SplitCount(d2, max_step) ==
    IF d2 <= max_step * max_step \/ d2 = 0 THEN 1 ELSE CeilSteps(d2, max_step, 1)

\* the mutant of SubMove: the feed override repeated on every sub-segment
SubMoveFeedAll(x0, y0, x1, y1, e, n, i, f) ==
    [x |-> RAdd(RInt(x0), RMul(RInt(x1 - x0), Rat(i, n))),
     y |-> RAdd(RInt(y0), RMul(RInt(y1 - y0), Rat(i, n))),
     e |-> Rat(e, n),
     f |-> f]

\* one (xi, yi, ei, f if i == 1 else None) of the loop of split_extrusion_move
SubMove(x0, y0, x1, y1, e, n, i, f) ==
    [x |-> RAdd(RInt(x0), RMul(RInt(x1 - x0), Rat(i, n))),
     y |-> RAdd(RInt(y0), RMul(RInt(y1 - y0), Rat(i, n))),
     e |-> Rat(e, n),
     f |-> IF i = 1 THEN f ELSE None]

split_extrusion_move(x0, y0, x1, y1, e, max_step, f) ==
    LET d2 == dist_xy2(x0, y0, x1, y1)
        n  == SplitCount(d2, max_step)
    IN  IF d2 <= max_step * max_step \/ d2 = 0
        THEN << [x |-> RInt(x1), y |-> RInt(y1), e |-> RInt(e), f |-> f] >>
        ELSE [i \in 1..n |-> SubMove(x0, y0, x1, y1, e, n, i, f)]

(***************************************************************************)
(* VerticalProjector.  A mesh is a sequence of triangles, a triangle a     *)
(* triple of vertices <<x, y, z>>.                                         *)
(***************************************************************************)
SetMin(S) == CHOOSE m \in S : \A k \in S : m <= k

SetMax(S) == CHOOSE m \in S : \A k \in S : m >= k

TriXs(t) == {t[1][1], t[2][1], t[3][1]}

TriYs(t) == {t[1][2], t[2][2], t[3][2]}

\* int(math.floor((v - origin) / cell)) for a rational v
CellIndex(v, origin, cell) == RFloor(Rat(v.n - origin * v.d, v.d * cell))

\* the mutant of TriCells: a triangle is filed under the cell of the low
\* corner of its bounding box only
TriCellsLowCorner(t, minx, miny, cell) ==
    { << CellIndex(RInt(SetMin(TriXs(t))), minx, cell),
         CellIndex(RInt(SetMin(TriYs(t))), miny, cell) >> }

\* the cell range ix0..ix1, iy0..iy1 of one triangle's XY bounding box
TriCells(t, minx, miny, cell) ==
    LET ix0 == CellIndex(RInt(SetMin(TriXs(t))), minx, cell)
        ix1 == CellIndex(RInt(SetMax(TriXs(t))), minx, cell)
        iy0 == CellIndex(RInt(SetMin(TriYs(t))), miny, cell)
        iy1 == CellIndex(RInt(SetMax(TriYs(t))), miny, cell)
    IN  (ix0..ix1) \X (iy0..iy1)

\* VerticalProjector.__init__: the grid maps a cell to the triangle indices
\* appended to it, in index order; cells no triangle touches have no entry
VerticalProjector(mesh, cell_size) ==
    LET minx  == SetMin(UNION {TriXs(mesh[i]) : i \in DOMAIN mesh})
        miny  == SetMin(UNION {TriYs(mesh[i]) : i \in DOMAIN mesh})
        cells == UNION {TriCells(mesh[i], minx, miny, cell_size) : i \in DOMAIN mesh}
        idx   == [i \in DOMAIN mesh |-> i]
    IN  [tri  |-> mesh,
         cell |-> cell_size,
         minx |-> minx,
         miny |-> miny,
         grid |-> [c \in cells |->
                     SelectSeq(idx, LAMBDA i : c \in TriCells(mesh[i], minx, miny, cell_size))]]

\* self.grid.get(key, [])
GridGet(P, key) == IF key \in DOMAIN P.grid THEN P.grid[key] ELSE <<>>

\* a rational r < -1e-9, resp. r < c - 1e-9 style tests: 1e-9 mm-scale
\* tolerances are 1/EpsInv of a unit for lengths
EpsInv == 1000

\* for barycentric weights (dimensionless) the tolerance -1e-9 is 1/BaryEpsInv
BaryEpsInv == 1000000000

\* r < -1/k for a rational r and k > 0, without forming r.n * k
LtNegInv(r, k) == r.n < 0 /\ (-r.n) > r.d \div k

\* The integers of _barycentric_2d for the point (px, py), over the common
\* denominator k of px and py: den, and the numerators of u and v over den * k
BaryIntsOver(px, py, a, b, c, k) ==
    LET v0x == b[1] - a[1]
        v0y == b[2] - a[2]
        v1x == c[1] - a[1]
        v1y == c[2] - a[2]
        v2x == px.n * (k \div px.d) - a[1] * k
        v2y == py.n * (k \div py.d) - a[2] * k
    IN  [den |-> v0x * v1y - v1x * v0y,
         k   |-> k,
         un  |-> v2x * v1y - v1x * v2y,
         vn  |-> v0x * v2y - v2x * v0y]

BaryInts(px, py, a, b, c) ==
    BaryIntsOver(px, py, a, b, c, (px.d \div GCD(px.d, py.d)) * py.d)

\* _barycentric_2d: None, or (w, u, v)
\* "if u < eps or v < eps or w < eps: return None", else (w, u, v)
BaryWeights(w, u, v) ==
    IF LtNegInv(u, BaryEpsInv) \/ LtNegInv(v, BaryEpsInv) \/ LtNegInv(w, BaryEpsInv)
    THEN None
    ELSE Some([w |-> w, u |-> u, v |-> v])

\* the weights from the integers B of BaryInts
BaryFrom(B) ==
    IF B.den = 0   \* abs(den) < 1e-12 mm^2, i.e. below one square unit
    THEN None
    ELSE BaryWeights(Rat(B.den * B.k - B.un - B.vn, B.den * B.k),
                     Rat(B.un, B.den * B.k), Rat(B.vn, B.den * B.k))

barycentric_2d(px, py, a, b, c) == BaryFrom(BaryInts(px, py, a, b, c))

\* the candidate list of z_hit_above: the 3x3 block of cells, dx outer, dy inner
Candidates(P, x, y) ==
    LET ix == CellIndex(x, P.minx, P.cell)
        iy == CellIndex(y, P.miny, P.cell)
    IN  GridGet(P, <<ix - 1, iy - 1>>) \o GridGet(P, <<ix - 1, iy>>) \o GridGet(P, <<ix - 1, iy + 1>>)
        \o GridGet(P, <<ix, iy - 1>>) \o GridGet(P, <<ix, iy>>) \o GridGet(P, <<ix, iy + 1>>)
        \o GridGet(P, <<ix + 1, iy - 1>>) \o GridGet(P, <<ix + 1, iy>>) \o GridGet(P, <<ix + 1, iy + 1>>)

\* the interpolated z of triangle t at (x, y), or None when the projection
\* rejects it: w * za + u * zb + v * zc with w = 1 - u - v, evaluated as
\* za + u * (zb - za) + v * (zc - za)
TriZFrom(t, B) ==
    IF IsNone(BaryFrom(B)) THEN None
    ELSE Some(RAdd(RInt(t[1][3]),
                   Rat(B.un * (t[2][3] - t[1][3]) + B.vn * (t[3][3] - t[1][3]),
                       B.den * B.k)))

TriZ(t, x, y) == TriZFrom(t, BaryInts(x, y, t[1], t[2], t[3]))

\* the mutant of BelowWindow: surfaces below the nominal height qualify
BelowWindowNever(z, z0) == FALSE

\* z < z0 - 1e-9
BelowWindow(z, z0) == RLt(z, RSub(z0, Rat(1, EpsInv)))

\* z > z_max + 1e-9
AboveWindow(z, z_max) == RLt(RAdd(z_max, Rat(1, EpsInv)), z)

\* the mutant of NextBest: the first hit in the window is kept
NextBestFirst(tz, z0, z_max, z_best) ==
    IF IsNone(tz) THEN z_best
    ELSE IF BelowWindow(Get(tz), z0) THEN z_best
    ELSE IF AboveWindow(Get(tz), z_max) THEN z_best
    ELSE IF IsNone(z_best) THEN tz
    ELSE z_best

\* one turn of the loop of z_hit_above: z_best after the triangle whose
\* interpolated z is tz (None when the projection rejects the point)
NextBest(tz, z0, z_max, z_best) ==
    IF IsNone(tz) THEN z_best
    ELSE IF BelowWindow(Get(tz), z0) THEN z_best
    ELSE IF AboveWindow(Get(tz), z_max) THEN z_best
    ELSE IF IsNone(z_best) \/ RLt(Get(tz), Get(z_best)) THEN tz
    ELSE z_best

\* the loop of z_hit_above over cand[k..], carrying z_best
RECURSIVE HitLoop(_, _, _, _, _, _, _, _)
HitLoop(P, cand, k, x, y, z0, z_max, z_best) ==
    IF k > Len(cand) THEN z_best
    ELSE HitLoop(P, cand, k + 1, x, y, z0, z_max,
                 NextBest(TriZ(P.tri[cand[k]], x, y), z0, z_max, z_best))

\* z_hit_above(x, y, z0, max_dist): x, y, z0, max_dist rationals; None or Some(z)
\* "if not cand: return None", else the loop
HitAmong(P, cand, x, y, z0, max_dist) ==
    IF cand = <<>> THEN None
    ELSE HitLoop(P, cand, 1, x, y, z0, RAdd(z0, max_dist), None)

z_hit_above(P, x, y, z0, max_dist) ==
    HitAmong(P, Candidates(P, x, y), x, y, z0, max_dist)

(***************************************************************************)
(* Lines of the motion program.                                            *)
(*   [form |-> "layer_z", v, raw]       ;Z:<v>                             *)
(*   [form |-> "layer_h", v, raw]       ;HEIGHT:<v>                        *)
(*   [form |-> "type", t, raw]          ;TYPE:<t>                          *)
(*   [form |-> "blank", raw]            empty after strip_comment          *)
(*   [form |-> "code", cmd, parts, raw] a command word and its parameter   *)
(*                                      tokens <<letter, value>> in order  *)
(***************************************************************************)
LayerZLine(v) == [form |-> "layer_z", v |-> v, raw |-> TRUE]

LayerHLine(v) == [form |-> "layer_h", v |-> v, raw |-> TRUE]

TypeLine(t) == [form |-> "type", t |-> t, raw |-> TRUE]

BlankLine == [form |-> "blank", raw |-> TRUE]

CodeLine(cmd, parts) == [form |-> "code", cmd |-> cmd, parts |-> parts, raw |-> TRUE]

\* " ".join(parts) + "\n" of the rewrite branch: text built from formatted numbers
EmittedLine(parts) == [form |-> "code", cmd |-> "G1", parts |-> parts, raw |-> FALSE]

\* parse_params: letter -> value, the last occurrence of a letter wins
parse_params(parts) ==
    [k \in {parts[i][1] : i \in DOMAIN parts} |->
        parts[SetMax({i \in DOMAIN parts : parts[i][1] = k})][2]]

Has(params, k) == k \in DOMAIN params

(***************************************************************************)
(* ModalState and Context.                                                 *)
(***************************************************************************)
ModalState ==
    [abs_xyz |-> TRUE, rel_e |-> TRUE, x |-> 0, y |-> 0, z |-> 0, e |-> 0, f |-> None]

Context == [layer_z |-> None, layer_h |-> None, feature_type |-> None]

\* str.strip().lower() on the feature names that occur
Canon(t) ==
    CASE t = "External perimeter" -> "external perimeter"
      [] t = "EXTERNAL PERIMETER " -> "external perimeter"
      [] t = "Support material" -> "support material"
      [] t = "Perimeter" -> "perimeter"
      [] t = "Top solid infill" -> "top solid infill"
      [] OTHER -> t

should_modify_type(feature_type, include_types) ==
    IF IsNone(feature_type) THEN FALSE
    ELSE \E t \in include_types : Canon(Get(feature_type)) = Canon(t)

(***************************************************************************)
(* The G1 branch of rewrite_prusaslicer_gcode.                             *)
(***************************************************************************)
\* x1, y1, z1: the resolved target of the move
Target(st, params) ==
    [x |-> IF Has(params, "X")
           THEN (IF st.abs_xyz THEN params["X"] ELSE st.x + params["X"]) ELSE st.x,
     y |-> IF Has(params, "Y")
           THEN (IF st.abs_xyz THEN params["Y"] ELSE st.y + params["Y"]) ELSE st.y,
     z |-> IF Has(params, "Z")
           THEN (IF st.abs_xyz THEN params["Z"] ELSE st.z + params["Z"]) ELSE st.z]

is_extruding(st, params) ==
    /\ Has(params, "E")
    /\ IF st.rel_e THEN params["E"] > 0 ELSE params["E"] > st.e
    /\ (Has(params, "X") \/ Has(params, "Y"))

\* layer_z = ctx.layer_z if ctx.layer_z is not None else last_layer_z
EffLayerZ(ctx, last_layer_z) ==
    IF ~IsNone(ctx.layer_z) THEN ctx.layer_z ELSE last_layer_z

\* 1e-6 mm, the first-layer guard's tolerance
FirstLayerEps == 1

\* the mutant of can_modify: the first-layer guard dropped
can_modify_no_first_layer_guard(st, ctx, last_layer_z, params, cfg) ==
    /\ is_extruding(st, params)
    /\ ~IsNone(EffLayerZ(ctx, last_layer_z))
    /\ ~IsNone(ctx.layer_h)
    /\ should_modify_type(ctx.feature_type, cfg.include_types)

\* the mutant of can_modify: the feature type is not consulted
can_modify_any_type(st, ctx, last_layer_z, params, cfg) ==
    /\ is_extruding(st, params)
    /\ ~IsNone(EffLayerZ(ctx, last_layer_z))
    /\ ~IsNone(ctx.layer_h)
    /\ (~cfg.disable_first_layer
        \/ Get(EffLayerZ(ctx, last_layer_z)) > Get(ctx.layer_h) + FirstLayerEps)

can_modify(st, ctx, last_layer_z, params, cfg) ==
    /\ is_extruding(st, params)
    /\ ~IsNone(EffLayerZ(ctx, last_layer_z))
    /\ ~IsNone(ctx.layer_h)
    /\ should_modify_type(ctx.feature_type, cfg.include_types)
    /\ (~cfg.disable_first_layer
        \/ Get(EffLayerZ(ctx, last_layer_z)) > Get(ctx.layer_h) + FirstLayerEps)

\* dz_max = layer_h * max_dz_frac
DzMax(layer_h, cfg) == RMul(RInt(layer_h), cfg.max_dz_frac)

\* the mutant of RayDist: an explicit probe distance is ignored
RayDistDerivedOnly(layer_h, cfg) ==
    RMul(RInt(layer_h), RAdd(cfg.max_dz_frac, RInt(1)))

\* ray_dist = max_ray_dist if given, else layer_h * (max_dz_frac + 1.0)
RayDist(layer_h, cfg) ==
    IF ~IsNone(cfg.max_ray_dist) THEN RInt(Get(cfg.max_ray_dist))
    ELSE RMul(RInt(layer_h), RAdd(cfg.max_dz_frac, RInt(1)))

\* the mutant of ClampDz: no clamp
ClampDzNone(dz, dz_max) == dz

\* dz clamped to [-dz_max, dz_max]
ClampDz(dz, dz_max) ==
    IF RLt(dz_max, dz) THEN dz_max
    ELSE IF RLt(dz, RNeg(dz_max)) THEN RNeg(dz_max)
    ELSE dz

\* the mutant of DzOf: without a hit the offset is the largest allowed
DzOfNoHitMax(z_hit, z0, dz_max) ==
    IF IsNone(z_hit) THEN dz_max ELSE ClampDz(RSub(Get(z_hit), z0), dz_max)

\* dz of one sub-segment end point: 0 without a hit, else the clamped offset
DzOf(z_hit, z0, dz_max) ==
    IF IsNone(z_hit) THEN RInt(0) ELSE ClampDz(RSub(Get(z_hit), z0), dz_max)

\* z_new of one sub-segment end point
ZNew(P, xs, ys, layer_z, layer_h, cfg) ==
    RAdd(RInt(layer_z),
         DzOf(z_hit_above(P, xs, ys, RInt(layer_z), RayDist(layer_h, cfg)),
              RInt(layer_z), DzMax(layer_h, cfg)))

\* the line emitted for one sub-segment
EmitSub(P, sm, layer_z, layer_h, cfg) ==
    EmittedLine(
        << <<"X", fmt_float(sm.x)>>, <<"Y", fmt_float(sm.y)>>,
           <<"Z", fmt_float(ZNew(P, sm.x, sm.y, layer_z, layer_h, cfg))>>,
           <<"E", fmt_float(sm.e)>> >>
        \o (IF IsNone(sm.f) THEN <<>> ELSE << <<"F", fmt_float(RInt(Get(sm.f)))>> >>))

\* "for (xs, ys, es, f_first) in submoves": the lines of subs[k..]
RECURSIVE EmitAll(_, _, _, _, _, _)
EmitAll(P, subs, k, layer_z, layer_h, cfg) ==
    IF k > Len(subs) THEN <<>>
    ELSE << EmitSub(P, subs[k], layer_z, layer_h, cfg) >>
         \o EmitAll(P, subs, k + 1, layer_z, layer_h, cfg)

\* e_delta = float(e) if st.rel_e else float(e - st.e)
EDelta(st, params) == IF st.rel_e THEN params["E"] ELSE params["E"] - st.e

\* submoves of the rewrite branch
SubMoves(st, params, cfg) ==
    LET tg == Target(st, params)
    IN  split_extrusion_move(st.x, st.y, tg.x, tg.y, EDelta(st, params),
                             cfg.nozzle_diam, st.f)

\* the mutant of AdvanceRewritten: a rewritten move leaves the interpreter in
\* relative extrusion, the convention of the emitted lines
AdvanceRewrittenRelE(st, params, zlast) ==
    LET tg == Target(st, params)
    IN  [st EXCEPT !.x = tg.x, !.y = tg.y, !.z = tg.z,
                   !.e = IF st.rel_e THEN st.e + EDelta(st, params) ELSE params["E"],
                   !.rel_e = TRUE]

\* the mutant of AdvanceRewritten: the state keeps the corrected position of
\* the last sub-segment instead of the original target
AdvanceRewrittenToEmitted(st, params, zlast) ==
    LET tg == Target(st, params)
    IN  [st EXCEPT !.x = tg.x, !.y = tg.y, !.z = zlast,
                   !.e = IF st.rel_e THEN st.e + EDelta(st, params) ELSE params["E"]]

\* "advance state to end of original move (position and E)"
AdvanceRewritten(st, params, zlast) ==
    LET tg == Target(st, params)
    IN  [st EXCEPT !.x = tg.x, !.y = tg.y, !.z = tg.z,
                   !.e = IF st.rel_e THEN st.e + EDelta(st, params) ELSE params["E"]]

\* "Not modified: pass through, but update state"
AdvancePassthrough(st, params) ==
    LET tg == Target(st, params)
    IN  [st EXCEPT !.x = tg.x, !.y = tg.y, !.z = tg.z,
                   !.e = IF ~Has(params, "E") THEN st.e
                         ELSE IF st.rel_e THEN st.e + params["E"] ELSE params["E"]]

\* the mutant of PassLine: a passed-through command is re-serialised
PassLineReformat(ln) ==
    IF ln.form = "code" THEN [ln EXCEPT !.raw = FALSE] ELSE ln

\* out.append(ln)
PassLine(ln) == ln

\* the whole G1 branch: [st, out]
\* "if 'F' in params: st.f = params['F']"
TrackFeed(st, params) ==
    IF Has(params, "F") THEN [st EXCEPT !.f = Some(params["F"])] ELSE st

\* the rewrite branch once its lines are emitted: [st, out]
Rewrite(st, params, lines) ==
    [st  |-> AdvanceRewritten(st, params, parse_params(lines[Len(lines)].parts)["Z"]),
     out |-> lines]

\* the G1 branch for parsed params and the state st after the feed update
G1Branch(st, ctx, last_layer_z, cfg, P, ln, params) ==
    IF can_modify(st, ctx, last_layer_z, params, cfg)
    THEN Rewrite(st, params,
                 EmitAll(P, SubMoves(st, params, cfg), 1,
                         Get(EffLayerZ(ctx, last_layer_z)), Get(ctx.layer_h), cfg))
    ELSE [st |-> AdvancePassthrough(st, params), out |-> << PassLine(ln) >>]

ProcessG1(st, ctx, last_layer_z, cfg, P, ln) ==
    G1Branch(TrackFeed(st, parse_params(ln.parts)), ctx, last_layer_z, cfg, P, ln,
             parse_params(ln.parts))

\* code.startswith(prefix) on the command words that occur
StartsWith(cmd, prefix) ==
    CASE prefix = "G90" -> cmd = "G90"
      [] prefix = "G91" -> cmd = "G91"
      [] prefix = "M82" -> cmd = "M82"
      [] prefix = "M83" -> cmd = "M83"
      [] prefix = "G1"  -> cmd \in {"G1", "G10"}
      [] OTHER -> FALSE

\* the result of an iteration that took the G1 branch
WithG1(keep, r) == [keep EXCEPT !.st = r.st, !.out = r.out]

\* one iteration of "for ln in lines": [st, ctx, last_layer_z, out], out being
\* the lines this iteration appends
ProcessLine(st, ctx, last_layer_z, cfg, P, ln) ==
    LET keep == [st |-> st, ctx |-> ctx, last_layer_z |-> last_layer_z,
                 out |-> << PassLine(ln) >>]
    IN  IF ln.form = "layer_z"
        THEN [keep EXCEPT !.ctx.layer_z = Some(ln.v), !.last_layer_z = Some(ln.v)]
        ELSE IF ln.form = "layer_h"
        THEN [keep EXCEPT !.ctx.layer_h = Some(ln.v)]
        ELSE IF ln.form = "type"
        THEN [keep EXCEPT !.ctx.feature_type = Some(ln.t)]
        ELSE IF ln.form = "blank"
        THEN keep
        ELSE IF StartsWith(ln.cmd, "G90") THEN [keep EXCEPT !.st.abs_xyz = TRUE]
        ELSE IF StartsWith(ln.cmd, "G91") THEN [keep EXCEPT !.st.abs_xyz = FALSE]
        ELSE IF StartsWith(ln.cmd, "M82") THEN [keep EXCEPT !.st.rel_e = FALSE]
        ELSE IF StartsWith(ln.cmd, "M83") THEN [keep EXCEPT !.st.rel_e = TRUE]
        ELSE IF StartsWith(ln.cmd, "G1")
        THEN WithG1(keep, ProcessG1(st, ctx, last_layer_z, cfg, P, ln))
        ELSE keep

(***************************************************************************)
(* The printer executing a program: the reference against which the        *)
(* rewritten program is compared.  G0 and G1 move; X, Y, Z are targets     *)
(* under G90 and offsets under G91; E is a target under M82 and an amount  *)
(* under M83; F on any move sets the modal feed rate.  The machine starts  *)
(* in the modes the interpreter assumes.                                   *)
(***************************************************************************)
Machine == ModalState

Exec(m, ln) ==
    IF ln.form # "code" THEN m
    ELSE IF ln.cmd = "G90" THEN [m EXCEPT !.abs_xyz = TRUE]
    ELSE IF ln.cmd = "G91" THEN [m EXCEPT !.abs_xyz = FALSE]
    ELSE IF ln.cmd = "M82" THEN [m EXCEPT !.rel_e = FALSE]
    ELSE IF ln.cmd = "M83" THEN [m EXCEPT !.rel_e = TRUE]
    ELSE IF ln.cmd \in {"G0", "G1"}
    THEN LET p == parse_params(ln.parts)
         IN  [m EXCEPT
                !.x = IF Has(p, "X") THEN (IF m.abs_xyz THEN p["X"] ELSE m.x + p["X"]) ELSE m.x,
                !.y = IF Has(p, "Y") THEN (IF m.abs_xyz THEN p["Y"] ELSE m.y + p["Y"]) ELSE m.y,
                !.z = IF Has(p, "Z") THEN (IF m.abs_xyz THEN p["Z"] ELSE m.z + p["Z"]) ELSE m.z,
                !.e = IF Has(p, "E") THEN (IF m.rel_e THEN m.e + p["E"] ELSE p["E"]) ELSE m.e,
                !.f = IF Has(p, "F") THEN Some(p["F"]) ELSE m.f]
    ELSE m

RECURSIVE ExecAll(_, _)
ExecAll(m, lines) ==
    IF lines = <<>> THEN m ELSE ExecAll(Exec(m, Head(lines)), Tail(lines))

(***************************************************************************)
(* Runs.  A scenario fixes the arguments of rewrite_prusaslicer_gcode, the *)
(* mesh, and the layer annotations the input file may carry.               *)
(***************************************************************************)
\* nozzle diameter = resample step = grid cell
Nozzle == 60

\* a ramp over [0,120] x [0,40] rising from z = 46 at x = 0 to z = 60 at
\* x = 120, plus a vertical wall at x = 60 (degenerate in projection)
RampMesh ==
    << << <<0, 0, 46>>, <<120, 0, 60>>, <<120, 40, 60>> >>,
       << <<0, 0, 46>>, <<120, 40, 60>>, <<0, 40, 46>> >>,
       << <<60, 0, 40>>, <<60, 40, 40>>, <<60, 40, 90>> >> >>

\* the flat horizontal test surface at the given height
PlaneMesh(z) ==
    << << <<0, 0, z>>, <<180, 0, z>>, <<180, 40, z>> >>,
       << <<0, 0, z>>, <<180, 40, z>>, <<0, 40, z>> >> >>

IncludeTypes == {"EXTERNAL PERIMETER "}

Cfg(frac, dfl, ray) ==
    [nozzle_diam |-> Nozzle, max_dz_frac |-> frac, include_types |-> IncludeTypes,
     disable_first_layer |-> dfl, max_ray_dist |-> ray]

\* the positions and the extrusion accumulator explored stay within these
MaxCoord == 180

MaxE == 20

TypeNames == {"External perimeter", "Support material"}

ModeWords == {"G90", "G91", "M82", "M83"}

\* parameter lists of G1 lines: every way a move can fail to deposit material,
\* and depositing moves of one, two and three nozzle widths
G1Shapes ==
    { << <<"X", 0>>, <<"Y", 0>>, <<"F", 30>> >>,
      << <<"X", 60>>, <<"E", 20>> >>,
      << <<"X", 180>>, <<"E", 20>> >>,
      << <<"Y", 0>>, <<"E", 20>> >>,
      << <<"E", -20>> >>,
      << <<"X", 60>>, <<"E", 0>> >>,
      << <<"Z", 70>>, <<"E", 20>> >> }

G1Moves ==
    { << <<"X", 60>>, <<"E", 20>> >>,
      << <<"X", 180>>, <<"E", 20>> >>,
      << <<"X", 0>>, <<"E", 0>> >>,
      << <<"E", -20>> >> }

G1Feed ==
    { << <<"X", 0>>, <<"Y", 0>>, <<"F", 30>> >>,
      << <<"X", 60>>, <<"E", 20>> >>,
      << <<"X", 180>>, <<"E", 20>>, <<"F", 30>> >> }

G0Travel == CodeLine("G0", << <<"X", 120>>, <<"F", 90>> >>)

\* input files of layered prints in the default modes
FamLayers(c) ==
    [cfg |-> c, mesh |-> RampMesh, zs |-> {20, 50}, hs |-> {20}, types |-> TypeNames,
     modes |-> {}, g1 |-> G1Shapes, others |-> {}, zmax |-> MaxCoord]

\* input files that switch positioning and extrusion modes
FamModes(c) ==
    [cfg |-> c, mesh |-> RampMesh, zs |-> {50}, hs |-> {20},
     types |-> {"External perimeter"}, modes |-> ModeWords, g1 |-> G1Moves, others |-> {},
     zmax |-> MaxCoord]

\* input files with travel moves and feed changes
FamFeed(c) ==
    [cfg |-> c, mesh |-> RampMesh, zs |-> {50}, hs |-> {20},
     types |-> {"External perimeter"}, modes |-> {}, g1 |-> G1Feed,
     others |-> {G0Travel}, zmax |-> MaxCoord]

\* input files whose ;Z: annotation has more decimals than an emitted line
\* prints: moves to the foot of the wall, across the ramp and past its edge
FamFine(c) ==
    [cfg |-> c, mesh |-> RampMesh, zs |-> {54}, hs |-> {20},
     types |-> {"External perimeter"}, modes |-> {},
     g1 |-> { << <<"X", 60>>, <<"E", 20>> >>, << <<"X", 180>>, <<"E", 20>> >>,
              << <<"X", 0>>, <<"E", 0>> >> },
     others |-> {}, zmax |-> MaxCoord]

\* input files that lift the head to the layer height before printing it, and
\* print included and non-included features on the same layer
FamHop(c) ==
    [cfg |-> c, mesh |-> RampMesh, zs |-> {50, 60}, hs |-> {20}, types |-> TypeNames,
     modes |-> {},
     g1 |-> { << <<"Z", 50>> >>, << <<"X", 120>>, <<"E", 20>> >>,
              << <<"X", 0>>, <<"E", 10>> >> },
     others |-> {}, zmax |-> MaxCoord]

\* the flat test surface: layer Z 0.45, layer height 0.25
FamFlat(c, z) ==
    [cfg |-> c, mesh |-> PlaneMesh(z), zs |-> {450000}, hs |-> {250000},
     types |-> TypeNames, modes |-> {"G90", "M83"}, g1 |-> G1Feed,
     others |-> {CodeLine("M104", << <<"S", 200>> >>)}, zmax |-> z]

Scenarios ==
    { FamLayers(Cfg(Rat(1, 3), TRUE, None)),
      FamLayers(Cfg(Rat(1, 2), FALSE, Some(200))),
      FamModes(Cfg(Rat(1, 3), TRUE, None)),
      FamFeed(Cfg(Rat(1, 3), TRUE, None)),
      FamFine(Cfg(Rat(1, 3), TRUE, None)),
      FamFine(Cfg(Rat(0, 1), TRUE, None)),
      FamHop(Cfg(Rat(1, 3), TRUE, None)) }

\* the height of the flat test surface, Z = 1.0
PlaneZ == 1000000

\* clamp fraction 0.5 over the surface at Z = 1.0, with the derived probe
\* distance, with an explicit one of 0.55 and with one just short of it
FlatScenarios ==
    { FamFlat(Cfg(Rat(1, 2), TRUE, None), PlaneZ),
      FamFlat(Cfg(Rat(1, 2), TRUE, Some(550000)), PlaneZ),
      FamFlat(Cfg(Rat(1, 2), TRUE, Some(549999)), PlaneZ) }

VARIABLES scn, proj, st, ctx, last_layer_z, out, ln, prev, st0, mIn, mOut, sIn, sOut, cli

vars == <<scn, proj, st, ctx, last_layer_z, out, ln, prev, st0, mIn, mOut, sIn, sOut, cli>>

cfg == scn.cfg

\* no command-line run in progress
NoCli == [pc |-> "none"]

\* Z is followed up to the height of the scenario's surface
Bounded(m) ==
    /\ m.x \in 0..MaxCoord /\ m.y \in 0..MaxCoord /\ m.z \in 0..scn.zmax
    /\ m.e \in (-MaxE)..(MaxE + Quantum)

\* the same run with nothing eligible
cfg0 == [cfg EXCEPT !.include_types = {}]

InitRun(S) ==
    /\ scn \in S
    /\ proj = VerticalProjector(scn.mesh, scn.cfg.nozzle_diam)
    /\ st = ModalState
    /\ ctx = Context
    /\ last_layer_z = None
    /\ out = <<>>
    /\ ln = BlankLine
    /\ prev = ModalState
    /\ st0 = ModalState
    /\ mIn = Machine
    /\ mOut = Machine
    /\ sIn = <<>>
    /\ sOut = <<>>
    /\ cli = NoCli

Init == InitRun(Scenarios)

FlatInit == InitRun(FlatScenarios)

\* one iteration of the loop on line l
\* r: the iteration's result; r0: that of the run with nothing eligible;
\* mi, mo: the machines after the input line, resp. the output lines
Commit(l, r, r0, mi, mo) ==
    /\ Bounded(r.st) /\ Bounded(mi) /\ Bounded(mo)
    /\ st' = r.st
    /\ ctx' = r.ctx
    /\ last_layer_z' = r.last_layer_z
    /\ out' = r.out
    /\ ln' = l
    /\ prev' = st
    /\ st0' = r0.st
    /\ mIn' = mi
    /\ mOut' = mo
    /\ UNCHANGED <<scn, proj, sIn, sOut>>

StepOn(l, r) ==
    Commit(l, r, ProcessLine(st0, ctx, last_layer_z, cfg0, proj, l),
           Exec(mIn, l), ExecAll(mOut, r.out))

Step(l) == StepOn(l, ProcessLine(st, ctx, last_layer_z, cfg, proj, l)) /\ UNCHANGED cli

ReadLayerZ == \E v \in scn.zs : Step(LayerZLine(v))

ReadLayerH == \E v \in scn.hs : Step(LayerHLine(v))

ReadType == \E t \in scn.types : Step(TypeLine(t))

ReadBlank == \E l \in {BlankLine} : Step(l)

ReadMode == \E c \in scn.modes : Step(CodeLine(c, <<>>))

ReadG1 == \E parts \in scn.g1 : Step(CodeLine("G1", parts))

ReadOther == \E l \in scn.others : Step(l)

Next ==
    \/ ReadLayerZ
    \/ ReadLayerH
    \/ ReadType
    \/ ReadBlank
    \/ ReadMode
    \/ ReadG1
    \/ ReadOther

Spec == Init /\ [][Next]_vars

FlatSpec == FlatInit /\ [][Next]_vars

(***************************************************************************)
(* split_extrusion_move on its own: the inputs are drawn at the start and  *)
(* the function is applied once.                                           *)
(***************************************************************************)
SplitInputs ==
    [x0 : {0, 60}, y0 : {0}, x1 : {0, 60, 100, 180}, y1 : {0, 45, 80},
     e : {20, 30}, max_step : {50, 60}, f : {None, Some(30)}]

SplitInit ==
    /\ scn = FamLayers(Cfg(Rat(1, 3), TRUE, None))
    /\ proj = VerticalProjector(scn.mesh, scn.cfg.nozzle_diam)
    /\ st = ModalState
    /\ ctx = Context
    /\ last_layer_z = None
    /\ out = <<>>
    /\ ln = BlankLine
    /\ prev = ModalState
    /\ st0 = ModalState
    /\ mIn = Machine
    /\ mOut = Machine
    /\ sIn \in SplitInputs
    /\ sOut = <<>>
    /\ cli = NoCli

ApplySplit ==
    /\ sOut = <<>>
    /\ sOut' = split_extrusion_move(sIn.x0, sIn.y0, sIn.x1, sIn.y1, sIn.e, sIn.max_step, sIn.f)
    /\ UNCHANGED <<scn, proj, st, ctx, last_layer_z, out, ln, prev, st0, mIn, mOut, sIn, cli>>

SplitNext == ApplySplit

SplitSpec == SplitInit /\ [][SplitNext]_vars

(***************************************************************************)
(* z_hit_above on its own: a mesh, a grid cell size and a query are drawn  *)
(* at the start, the projector is built and queried once.                  *)
(***************************************************************************)
\* a horizontal sheet at z = 70 over [0,120] x [0,40], listed before the ramp
\* below it
StackMesh ==
    << << <<0, 0, 70>>, <<120, 0, 70>>, <<120, 40, 70>> >>,
       << <<0, 0, 70>>, <<120, 40, 70>>, <<0, 40, 70>> >> >> \o RampMesh

\* a grid cell far smaller than the triangles
SmallCell == 25

HitScenario(mesh, cell) ==
    [FamLayers(Cfg(Rat(1, 3), TRUE, None)) EXCEPT !.mesh = mesh, !.cfg.nozzle_diam = cell]

HitScenarios ==
    { HitScenario(m, c) : m \in {RampMesh, StackMesh}, c \in {Nozzle, SmallCell} }

\* query points on, between and off the cell boundaries, inside and outside
\* the footprint; probe windows below, across and above the surfaces
HitInputs ==
    [x : {RInt(-10), RInt(0), RInt(30), RInt(60), Rat(200, 3), RInt(120), RInt(130)},
     y : {RInt(0), RInt(20), RInt(40), RInt(50)},
     z0 : {RInt(40), RInt(50), RInt(58)},
     max_dist : {RInt(5), RInt(10), RInt(30)}]

HitInit ==
    /\ scn \in HitScenarios
    /\ proj = VerticalProjector(scn.mesh, scn.cfg.nozzle_diam)
    /\ st = ModalState
    /\ ctx = Context
    /\ last_layer_z = None
    /\ out = <<>>
    /\ ln = BlankLine
    /\ prev = ModalState
    /\ st0 = ModalState
    /\ mIn = Machine
    /\ mOut = Machine
    /\ sIn \in HitInputs
    /\ sOut = <<>>
    /\ cli = NoCli

\* the query returns its result and leaves the projector as it is
ApplyHit ==
    /\ sOut = <<>>
    /\ sOut' = << z_hit_above(proj, sIn.x, sIn.y, sIn.z0, sIn.max_dist) >>
    /\ UNCHANGED <<scn, proj, st, ctx, last_layer_z, out, ln, prev, st0, mIn, mOut, sIn, cli>>

HitNext == ApplyHit

HitSpec == HitInit /\ [][HitNext]_vars

(***************************************************************************)
(* infer_layer_height_prusaslicer on its own: the lines of a file are      *)
(* drawn at the start and the function is applied once.                    *)
(***************************************************************************)
\* "0.01 < h < 2.0", in units
HeightMin == 10000

HeightMax == 2000000

\* hs: the ;HEIGHT: values in range, in file order
RECURSIVE CollectHeights(_)
CollectHeights(lines) ==
    IF lines = <<>> THEN <<>>
    ELSE (IF Head(lines).form = "layer_h" /\ HeightMin < Head(lines).v /\ Head(lines).v < HeightMax
          THEN << Head(lines).v >> ELSE <<>>)
         \o CollectHeights(Tail(lines))

\* v inserted into the ascending sequence s
RECURSIVE Insert(_, _)
Insert(s, v) ==
    IF s = <<>> THEN << v >>
    ELSE IF v <= Head(s) THEN << v >> \o s
    ELSE << Head(s) >> \o Insert(Tail(s), v)

RECURSIVE Sorted(_)
Sorted(s) == IF s = <<>> THEN <<>> ELSE Insert(Sorted(Tail(s)), Head(s))

\* np.median of a sorted non-empty sequence: the middle element, or the mean
\* of the two middle elements
MedianOfSorted(s) ==
    IF Len(s) % 2 = 1 THEN RInt(s[(Len(s) + 1) \div 2])
    ELSE Rat(s[Len(s) \div 2] + s[Len(s) \div 2 + 1], 2)

Median(hs) == MedianOfSorted(Sorted(hs))

\* the mutant of InferFrom: the first sample is never dropped
InferFromAll(hs) == IF hs = <<>> THEN None ELSE Some(Median(hs))

\* the return value for the collected samples hs
InferFrom(hs) ==
    IF hs = <<>> THEN None
    ELSE IF Len(hs) >= 4 THEN Some(Median(Tail(hs)))
    ELSE Some(Median(hs))

infer_layer_height_prusaslicer(lines) == InferFrom(CollectHeights(lines))

\* the longest file explored
MaxLines == 5

HeightWords == {HeightMin, 200000, 250000, HeightMax}

FileLines == {LayerHLine(v) : v \in HeightWords} \cup {TypeLine("External perimeter")}

Files == UNION { [1..n -> FileLines] : n \in 0..MaxLines }

InferInit ==
    /\ scn = FamLayers(Cfg(Rat(1, 3), TRUE, None))
    /\ proj = VerticalProjector(scn.mesh, scn.cfg.nozzle_diam)
    /\ st = ModalState
    /\ ctx = Context
    /\ last_layer_z = None
    /\ out = <<>>
    /\ ln = BlankLine
    /\ prev = ModalState
    /\ st0 = ModalState
    /\ mIn = Machine
    /\ mOut = Machine
    /\ sIn \in Files
    /\ sOut = <<>>
    /\ cli = NoCli

ApplyInfer ==
    /\ sOut = <<>>
    /\ sOut' = << infer_layer_height_prusaslicer(sIn) >>
    /\ UNCHANGED <<scn, proj, st, ctx, last_layer_z, out, ln, prev, st0, mIn, mOut, sIn, cli>>

InferNext == ApplyInfer

InferSpec == InferInit /\ [][InferNext]_vars

(***************************************************************************)
(* main: one command-line run.  cli.env is what the run finds: the         *)
(* arguments, the input file and the mesh file; the other fields of cli    *)
(* are the run's position and what it has done so far.                     *)
(*   env.gcode   [bgcode, nul, readable, model, body]: the path ends in    *)
(*               .bgcode; the offset of the first null byte or None; the   *)
(*               file can be opened; the M486 line it starts with ("none"  *)
(*               for no such line, else where the named STL is found:      *)
(*               "beside" the input, in the "cwd", or "absent"); the       *)
(*               remaining lines                                           *)
(*   env.stl_arg None, or Some of what --stl points to: "ok", "missing",   *)
(*               "scene" (loads, but not as a single Trimesh), "badshape"  *)
(*               (loads, with a malformed triangle array)                  *)
(*   env.out_arg --out names another path than the input                   *)
(*   env.nozzle  --nozzle                                                  *)
(*   env.trimesh the trimesh package can be imported                       *)
(* at_out is the content of the output path: "original", "truncated" or    *)
(* "rewritten".  An exception nobody catches ends the process with exit    *)
(* status 1 and a traceback.                                               *)
(***************************************************************************)
\* f.read(1024)
ReadLimit == 1024

is_binary_gcode(file) ==
    IF file.bgcode THEN TRUE
    ELSE IF ~file.readable THEN FALSE
    ELSE ~IsNone(file.nul) /\ Get(file.nul) < ReadLimit

M486Line == CodeLine("M486", <<>>)

\* f.readlines() of the input file
GcodeLines(file) == (IF file.model = "none" THEN <<>> ELSE << M486Line >>) \o file.body

\* extract_model_filename: the name on the first M486 line, or None
extract_model_filename(lines) ==
    IF \E i \in DOMAIN lines : lines[i].form = "code" /\ lines[i].cmd = "M486"
    THEN Some("model.stl") ELSE None

\* resolve_stl_for_gcode for a readable input file: what the path it returns
\* points to, or None when it raises FileNotFoundError
resolve_stl_for_gcode(file, explicit_stl) ==
    IF ~IsNone(explicit_stl) THEN explicit_stl
    ELSE IF ~IsNone(extract_model_filename(GcodeLines(file)))
            /\ file.model \in {"beside", "cwd"}
    THEN Some("ok")
    ELSE None

\* the mutant of LoadOutcome: loading never fails
LoadOutcomeLenient(trimesh, stl) == "ok"

\* the head of rewrite_prusaslicer_gcode up to the mesh clean-up
LoadOutcome(trimesh, stl) ==
    IF ~trimesh THEN "RuntimeError"
    ELSE IF stl = "missing" THEN "load_mesh error"
    ELSE IF stl = "scene" THEN "RuntimeError"
    ELSE "ok"

\* the checks of VerticalProjector.__init__
ProjectorOutcome(stl, cell_size) ==
    IF stl = "badshape" THEN "RuntimeError"
    ELSE IF cell_size <= 0 THEN "ValueError"
    ELSE "ok"

\* include_types of main without --include-type
MainIncludeTypes == {"External perimeter", "Perimeter", "Top solid infill"}

\* the arguments main passes to rewrite_prusaslicer_gcode
MainScenario(nozzle) ==
    [FamLayers(Cfg(Rat(1, 2), TRUE, None)) EXCEPT
        !.cfg.nozzle_diam = nozzle, !.cfg.include_types = MainIncludeTypes]

LayerHead == << LayerZLine(50), LayerHLine(20), TypeLine("External perimeter") >>

\* input files: empty; one move rewritten into three lines; mode lines, a
\* blank line and two rewritten moves in a row
Bodies ==
    { <<>>,
      LayerHead \o << CodeLine("G1", << <<"X", 180>>, <<"E", 20>> >>) >>,
      << CodeLine("G90", <<>>), BlankLine >> \o LayerHead
         \o << CodeLine("G1", << <<"X", 60>>, <<"E", 10>> >>),
               CodeLine("G1", << <<"X", 120>>, <<"E", 10>> >>) >> }

GcodeFiles ==
    [bgcode : BOOLEAN, nul : {None, Some(0), Some(ReadLimit)}, readable : BOOLEAN,
     model : {"none", "beside", "absent"}, body : Bodies]

Envs ==
    [gcode : GcodeFiles, stl_arg : {None, Some("ok"), Some("missing"), Some("scene"), Some("badshape")},
     out_arg : BOOLEAN, nozzle : {Nozzle, 0}, trimesh : BOOLEAN]

MainInit ==
    /\ cli \in [env : Envs, pc : {"resolve"}, stl : {None}, lines : {<<>>}, i : {0},
                 result : {<<>>}, text_read : {FALSE}, at_out : {"original"},
                 status : {None}, failed_at : {None}, err : {None}]
    /\ scn = MainScenario(cli.env.nozzle)
    /\ proj = None
    /\ st = ModalState
    /\ ctx = Context
    /\ last_layer_z = None
    /\ out = <<>>
    /\ ln = BlankLine
    /\ prev = ModalState
    /\ st0 = ModalState
    /\ mIn = Machine
    /\ mOut = Machine
    /\ sIn = <<>>
    /\ sOut = <<>>

\* an exception leaves main: the process ends with status 1
Raise(c, stage, what) ==
    [c EXCEPT !.pc = "exit", !.status = Some(1), !.failed_at = Some(stage), !.err = Some(what)]

\* stl = resolve_stl_for_gcode(args.gcode, args.stl)
MainResolve ==
    /\ cli.pc = "resolve"
    /\ cli' = IF ~IsNone(cli.env.stl_arg)
              THEN [cli EXCEPT !.pc = "read", !.stl = cli.env.stl_arg]
              ELSE IF ~cli.env.gcode.readable
              THEN Raise(cli, "resolve", "OSError")
              ELSE IF IsNone(resolve_stl_for_gcode(cli.env.gcode, None))
              THEN Raise([cli EXCEPT !.text_read = TRUE], "resolve", "FileNotFoundError")
              ELSE [cli EXCEPT !.pc = "read", !.text_read = TRUE,
                               !.stl = resolve_stl_for_gcode(cli.env.gcode, None)]
    /\ UNCHANGED <<scn, proj, st, ctx, last_layer_z, out, ln, prev, st0, mIn, mOut, sIn, sOut>>

\* lines = f.readlines()
MainRead ==
    /\ cli.pc = "read"
    /\ cli' = IF ~cli.env.gcode.readable
              THEN Raise(cli, "read", "OSError")
              ELSE [cli EXCEPT !.pc = "load", !.text_read = TRUE,
                               !.lines = GcodeLines(cli.env.gcode)]
    /\ UNCHANGED <<scn, proj, st, ctx, last_layer_z, out, ln, prev, st0, mIn, mOut, sIn, sOut>>

\* rewrite_prusaslicer_gcode: trimesh.load_mesh and the clean-up
MainLoad ==
    /\ cli.pc = "load"
    /\ cli' = IF LoadOutcome(cli.env.trimesh, Get(cli.stl)) = "ok"
              THEN [cli EXCEPT !.pc = "project"]
              ELSE Raise(cli, "load", LoadOutcome(cli.env.trimesh, Get(cli.stl)))
    /\ UNCHANGED <<scn, proj, st, ctx, last_layer_z, out, ln, prev, st0, mIn, mOut, sIn, sOut>>

\* proj = VerticalProjector(mesh, cell_size=nozzle_diam); st, ctx, out, last_layer_z
MainProject ==
    /\ cli.pc = "project"
    /\ IF ProjectorOutcome(Get(cli.stl), cli.env.nozzle) = "ok"
       THEN /\ cli' = [cli EXCEPT !.pc = "loop", !.i = 1]
            /\ proj' = VerticalProjector(scn.mesh, cli.env.nozzle)
       ELSE /\ cli' = Raise(cli, "project", ProjectorOutcome(Get(cli.stl), cli.env.nozzle))
            /\ proj' = proj
    /\ UNCHANGED <<scn, st, ctx, last_layer_z, out, ln, prev, st0, mIn, mOut, sIn, sOut>>

\* one iteration of "for ln in lines"
MainLine ==
    /\ cli.pc = "loop" /\ cli.i <= Len(cli.lines)
    /\ StepOn(cli.lines[cli.i], ProcessLine(st, ctx, last_layer_z, cfg, proj, cli.lines[cli.i]))
    /\ cli' = [cli EXCEPT !.i = @ + 1, !.result = @ \o out']

\* the loop is over, rewrite_prusaslicer_gcode returns: open(out_path, "w")
MainOpen ==
    /\ cli.pc = "loop" /\ cli.i > Len(cli.lines)
    /\ cli' = [cli EXCEPT !.pc = "write", !.at_out = "truncated"]
    /\ UNCHANGED <<scn, proj, st, ctx, last_layer_z, out, ln, prev, st0, mIn, mOut, sIn, sOut>>

\* f.writelines(rewritten); return 0
MainWrite ==
    /\ cli.pc = "write"
    /\ cli' = [cli EXCEPT !.pc = "exit", !.at_out = "rewritten", !.status = Some(0)]
    /\ UNCHANGED <<scn, proj, st, ctx, last_layer_z, out, ln, prev, st0, mIn, mOut, sIn, sOut>>

MainNext ==
    \/ MainResolve
    \/ MainRead
    \/ MainLoad
    \/ MainProject
    \/ MainLine
    \/ MainOpen
    \/ MainWrite

MainSpec == MainInit /\ [][MainNext]_vars

(***************************************************************************)
(* What a state shows of the line just processed.                          *)
(***************************************************************************)
Processed == out # <<>>

IsG1 == Processed /\ ln.form = "code" /\ ln.cmd = "G1"

LnParams == parse_params(ln.parts)

\* the iteration appended the input line itself, and nothing else
PassedThrough == out = << ln >>

\* the iteration appended synthesised lines only
Rewritten == IsG1 /\ \A i \in DOMAIN out : ~out[i].raw

Emitted(i, k) == parse_params(out[i].parts)[k]

\* the move's resolved extrusion delta: E under M83, E minus the accumulator under M82
LnDelta == IF prev.rel_e THEN LnParams["E"] ELSE LnParams["E"] - prev.e

Depositing ==
    /\ Has(LnParams, "E")
    /\ LnDelta > 0
    /\ (Has(LnParams, "X") \/ Has(LnParams, "Y"))

LayerKnown == ~IsNone(ctx.layer_z) /\ ~IsNone(ctx.layer_h)

TypeIncluded ==
    /\ ~IsNone(ctx.feature_type)
    /\ \E t \in cfg.include_types : Canon(t) = Canon(Get(ctx.feature_type))

LayerZ == Get(ctx.layer_z)

LayerH == Get(ctx.layer_h)

RECURSIVE SumE(_)
SumE(i) == IF i = 0 THEN 0 ELSE Emitted(i, "E") + SumE(i - 1)

\* the resolved target of the line under the modes in force before it
LnTarget(k, before) ==
    IF ~Has(LnParams, k) THEN before
    ELSE IF prev.abs_xyz THEN LnParams[k] ELSE before + LnParams[k]

(***************************************************************************)
(* C1.  A G1 line that is not eligible for rewriting (feature type not     *)
(* included or never seen, no ;Z: or no ;HEIGHT: seen, or not a            *)
(* material-depositing move) yields exactly one output line, identical to  *)
(* the input line.                                                         *)
(***************************************************************************)
C1_IneligiblePassThrough ==
    (IsG1 /\ (~TypeIncluded \/ IsNone(ctx.layer_z) \/ IsNone(ctx.layer_h) \/ ~Depositing))
        => PassedThrough

C1_Witness ==
    /\ IsG1 /\ Depositing /\ LayerKnown /\ LayerZ > LayerH + FirstLayerEps
    /\ ~TypeIncluded /\ ~IsNone(ctx.feature_type)
    /\ PassedThrough

(***************************************************************************)
(* C2.  For every rewritten move the E values on its sub-segment lines sum *)
(* to the move's resolved extrusion delta.                                 *)
(***************************************************************************)
C2_ExtrusionConserved == Rewritten => SumE(Len(out)) = LnDelta

(***************************************************************************)
(* C3.  Every emitted Z is within layer height x clamp fraction of the     *)
(* nominal layer Z (as claimed), resp. within that bound plus half of the  *)
(* last printed decimal place (as amended).                                *)
(***************************************************************************)
C3_ClampExact ==
    Rewritten =>
        \A i \in DOMAIN out :
            Abs(Emitted(i, "Z") - LayerZ) * cfg.max_dz_frac.d <= LayerH * cfg.max_dz_frac.n

C3_ClampUpToRounding ==
    Rewritten =>
        \A i \in DOMAIN out :
            2 * Abs(Emitted(i, "Z") - LayerZ) * cfg.max_dz_frac.d
                <= 2 * LayerH * cfg.max_dz_frac.n + Quantum * cfg.max_dz_frac.d

C3_Witness ==
    /\ Rewritten
    /\ \E i \in DOMAIN out :
          Abs(Emitted(i, "Z") - LayerZ) * cfg.max_dz_frac.d > LayerH * cfg.max_dz_frac.n

(***************************************************************************)
(* C4.  Flat surface at Z = 1.0, layer Z 0.45, layer height 0.25, clamp    *)
(* fraction 0.5.  As claimed: with the derived probe distance every        *)
(* sub-segment is emitted at Z = 0.575.  As amended: at Z = 0.575 when the *)
(* probe distance reaches the surface (0.55 or more), at the nominal 0.45  *)
(* otherwise, the derived distance 0.375 included.                         *)
(***************************************************************************)
FlatCase ==
    /\ scn.mesh = PlaneMesh(PlaneZ)
    /\ Rewritten
    /\ LayerZ = 450000 /\ LayerH = 250000 /\ cfg.max_dz_frac = Rat(1, 2)

\* the probe distance in force, in units
ProbeDistance ==
    IF IsNone(cfg.max_ray_dist) THEN (LayerH * 3) \div 2 ELSE Get(cfg.max_ray_dist)

C5_FirstLayerUntouched ==
    (IsG1 /\ cfg.disable_first_layer /\ LayerKnown /\ LayerZ <= LayerH) => PassedThrough

\* an included, depositing move on the first layer with the surface inside
\* the probe window above its target
C5_Witness ==
    /\ IsG1 /\ cfg.disable_first_layer /\ LayerKnown /\ LayerZ = LayerH
    /\ Depositing /\ TypeIncluded
    /\ ~IsNone(z_hit_above(proj, RInt(st.x), RInt(st.y), RInt(LayerZ), RayDist(LayerH, cfg)))
    /\ PassedThrough

(***************************************************************************)
(* C6.  After every line the ModalState equals that of the same run with   *)
(* an empty include set, and after a G1 line it is the original target and *)
(* the accumulator advanced by the original delta.                         *)
(***************************************************************************)
C6_StateAsPassThrough ==
    /\ st = st0
    /\ IsG1 =>
          /\ st.x = LnTarget("X", prev.x)
          /\ st.y = LnTarget("Y", prev.y)
          /\ st.z = LnTarget("Z", prev.z)
          /\ st.e = IF Has(LnParams, "E") THEN prev.e + LnDelta ELSE prev.e
          /\ st.abs_xyz = prev.abs_xyz /\ st.rel_e = prev.rel_e
          /\ st.f = IF Has(LnParams, "F") THEN Some(LnParams["F"]) ELSE prev.f

C6_Witness == Rewritten /\ Len(out) = 3 /\ Emitted(3, "Z") # st.z

(***************************************************************************)
(* C7.  A machine executing the output is, after every line, at the same   *)
(* X, Y as a machine executing the input.                                  *)
(***************************************************************************)
C7_PositionContinuity == Processed => (mOut.x = mIn.x /\ mOut.y = mIn.y)

(***************************************************************************)
(* C8.  The E words of a rewritten move are in the accounting convention   *)
(* in force: shares of the delta under M83, running targets under M82, so  *)
(* that under M82 the machine's accumulator ends at the move's own E.      *)
(***************************************************************************)
C8_EInActiveConvention ==
    Rewritten =>
        /\ \A i \in DOMAIN out :
              Emitted(i, "E") =
                  fmt_float(IF prev.rel_e THEN Rat(LnDelta, Len(out))
                            ELSE RAdd(RInt(prev.e), Rat(i * LnDelta, Len(out))))
        /\ ~prev.rel_e => mOut.e = mIn.e

(***************************************************************************)
(* C9.  After a rewritten move the feed rate in force on the machine       *)
(* executing the output equals the one in force on the machine executing   *)
(* the input.                                                              *)
(***************************************************************************)
C9_FeedPreserved == Rewritten => mOut.f = mIn.f

(***************************************************************************)
(* C10.  split_extrusion_move: one segment to (x1, y1) with all of E and   *)
(* the feed when the length is at most max_step; otherwise                 *)
(* ceil(length / max_step) equal steps ending at (x1, y1), none longer     *)
(* than max_step, each with E / n, the feed on the first only.             *)
(***************************************************************************)
SplitD2 == dist_xy2(sIn.x0, sIn.y0, sIn.x1, sIn.y1)

SplitStart(i, k) == IF i = 1 THEN RInt(IF k = "x" THEN sIn.x0 ELSE sIn.y0) ELSE sOut[i - 1][k]

C10_SplitShape ==
    sOut # <<>> =>
        LET n  == Len(sOut)
            s2 == sIn.max_step * sIn.max_step
        IN  IF SplitD2 <= s2
            THEN sOut = << [x |-> RInt(sIn.x1), y |-> RInt(sIn.y1), e |-> RInt(sIn.e), f |-> sIn.f] >>
            ELSE /\ (n - 1) * (n - 1) * s2 < SplitD2
                 /\ SplitD2 <= n * n * s2
                 /\ sOut[n].x = RInt(sIn.x1) /\ sOut[n].y = RInt(sIn.y1)
                 /\ \A i \in 1..n :
                       /\ RSub(sOut[i].x, SplitStart(i, "x")) = Rat(sIn.x1 - sIn.x0, n)
                       /\ RSub(sOut[i].y, SplitStart(i, "y")) = Rat(sIn.y1 - sIn.y0, n)
                       /\ sOut[i].e = Rat(sIn.e, n)
                       /\ sOut[i].f = IF i = 1 THEN sIn.f ELSE None

C10_Witness == Len(sOut) = 3 /\ ~IsNone(sIn.f) /\ sIn.y1 # sIn.y0

(***************************************************************************)
(* C11.  Every line emitted for a rewritten move is a G1 command whose     *)
(* parameters are X, Y, Z, E in exactly that order, followed by F if and   *)
(* only if the sub-segment carries a feed override (the first sub-segment, *)
(* with a feed rate known).                                                *)
(***************************************************************************)
Letters(i) == [k \in DOMAIN out[i].parts |-> out[i].parts[k][1]]

C11_EmittedShape ==
    Rewritten =>
        \A i \in DOMAIN out :
            /\ out[i].form = "code" /\ out[i].cmd = "G1"
            /\ Letters(i) = IF i = 1 /\ ~IsNone(st.f)
                            THEN <<"X", "Y", "Z", "E", "F">>
                            ELSE <<"X", "Y", "Z", "E">>

C11_Witness ==
    /\ Rewritten /\ Len(out) = 3
    /\ Letters(1) = <<"X", "Y", "Z", "E", "F">>
    /\ Letters(2) = <<"X", "Y", "Z", "E">>

(***************************************************************************)
(* C12.  z_hit_above returns the smallest interpolated Z among the         *)
(* triangles of the mesh whose XY projection is non-degenerate and         *)
(* contains (x, y) and whose interpolated Z lies in [z0, z0 + max_dist]    *)
(* (each test with the tolerance 1e-9 of the code), and no hit exactly     *)
(* when there is no such triangle.                                         *)
(***************************************************************************)
\* w * za + u * zb + v * zc for the weights bc of triangle t
InterpolatedZ(t, bc) ==
    RAdd(RMul(bc.w, RInt(t[1][3])),
         RAdd(RMul(bc.u, RInt(t[2][3])), RMul(bc.v, RInt(t[3][3]))))

\* the indices of the triangles that qualify for the query sIn
Qualifying ==
    { i \in DOMAIN scn.mesh :
        LET t  == scn.mesh[i]
            bc == barycentric_2d(sIn.x, sIn.y, t[1], t[2], t[3])
        IN  /\ ~IsNone(bc)
            /\ RLe(RSub(sIn.z0, Rat(1, EpsInv)), InterpolatedZ(t, Get(bc)))
            /\ RLe(InterpolatedZ(t, Get(bc)),
                   RAdd(RAdd(sIn.z0, sIn.max_dist), Rat(1, EpsInv))) }

QualifyingZ(i) ==
    InterpolatedZ(scn.mesh[i],
                  Get(barycentric_2d(sIn.x, sIn.y, scn.mesh[i][1], scn.mesh[i][2], scn.mesh[i][3])))

C12_SmallestQualifyingZ ==
    sOut # <<>> =>
        IF Qualifying = {}
        THEN IsNone(sOut[1])
        ELSE /\ ~IsNone(sOut[1])
             /\ \E i \in Qualifying : QualifyingZ(i) = Get(sOut[1])
             /\ \A i \in Qualifying : RLe(Get(sOut[1]), QualifyingZ(i))

\* two surfaces qualify and the higher one comes first in the candidate list
C12_Witness ==
    /\ sOut # <<>> /\ ~IsNone(sOut[1])
    /\ \E i, j \in Qualifying : i < j /\ RLt(QualifyingZ(j), QualifyingZ(i))

(***************************************************************************)
(* C13.  infer_layer_height_prusaslicer: the samples are the ;HEIGHT:      *)
(* values strictly between 0.01 and 2.0, in order.  No sample: None.  At   *)
(* least 4 samples: the median of all but the first.  1 to 3 samples: the  *)
(* median of all.  The samples 0.2, 0.2, 0.25, 0.25, 0.25 give 0.25.       *)
(***************************************************************************)
\* the positions of the file that carry a sample
SamplePos ==
    { i \in DOMAIN sIn : sIn[i].form = "layer_h" /\ sIn[i].v > 10000 /\ sIn[i].v < 2000000 }

\* the positions whose samples count: all, or all but the first when there
\* are at least 4
Counted ==
    IF Cardinality(SamplePos) >= 4
    THEN { i \in SamplePos : \E j \in SamplePos : j < i }
    ELSE SamplePos

\* v is the k-th smallest of the counted samples
IsKth(v, k) ==
    /\ \E i \in Counted : sIn[i].v = v
    /\ Cardinality({ i \in Counted : sIn[i].v < v }) < k
    /\ Cardinality({ i \in Counted : sIn[i].v <= v }) >= k

\* m is the median of the counted samples: the mean of the lower and the
\* upper middle order statistics
IsMedian(m) ==
    \E lo, hi \in { sIn[i].v : i \in Counted } :
        /\ IsKth(lo, (Cardinality(Counted) + 1) \div 2)
        /\ IsKth(hi, Cardinality(Counted) \div 2 + 1)
        /\ m = Rat(lo + hi, 2)

C13_InferredHeight ==
    sOut # <<>> =>
        /\ IF SamplePos = {} THEN IsNone(sOut[1])
           ELSE ~IsNone(sOut[1]) /\ IsMedian(Get(sOut[1]))
        /\ sIn = << LayerHLine(200000), LayerHLine(200000), LayerHLine(250000),
                    LayerHLine(250000), LayerHLine(250000) >>
              => sOut[1] = Some(RInt(250000))

\* four samples among five lines, the first of them 0.2: it is dropped and
\* the median of the other three is 0.25
C13_Witness ==
    /\ sOut = << Some(RInt(250000)) >>
    /\ Cardinality(SamplePos) = 4 /\ Len(sIn) = 5
    /\ \E i \in SamplePos : sIn[i].v = 200000 /\ \A j \in SamplePos : i <= j

(***************************************************************************)
(* C14.  An input file that is_binary_gcode classifies as binary (path     *)
(* ending in .bgcode, or a null byte among the first 1024 bytes) is        *)
(* rejected by the run before its lines are read as text, and no output is *)
(* written.                                                                *)
(***************************************************************************)
C14_BinaryRejected ==
    is_binary_gcode(cli.env.gcode) => (~cli.text_read /\ cli.at_out = "original")

(***************************************************************************)
(* C15.  A run with --stl pointing to a file that does not exist ends with *)
(* exit status 2 and the error "ERROR: STL file not found.", before any    *)
(* line is processed (the input file being readable and trimesh            *)
(* installed).                                                             *)
(***************************************************************************)
C15_MissingStlExit2 ==
    (/\ cli.pc = "exit" /\ cli.env.stl_arg = Some("missing")
     /\ cli.env.gcode.readable /\ cli.env.trimesh) =>
        /\ cli.status = Some(2)
        /\ cli.err = Some("ERROR: STL file not found.")
        /\ cli.i = 0

(***************************************************************************)
(* C16.  The output path is opened for writing only after resolution,      *)
(* loading, sampler construction and the whole loop have succeeded; when   *)
(* the STL cannot be resolved, the mesh file is missing, is not a single   *)
(* Trimesh or has a malformed triangle array, or the cell size is not      *)
(* positive, no line is ever processed and the output path keeps its       *)
(* content.                                                                *)
(***************************************************************************)
\* what the run's environment says of the mesh the run will use
EnvStl ==
    IF ~IsNone(cli.env.stl_arg) THEN cli.env.stl_arg
    ELSE IF cli.env.gcode.model = "beside" THEN Some("ok")
    ELSE None

SetupBroken ==
    \/ IsNone(EnvStl)
    \/ EnvStl \in {Some("missing"), Some("scene"), Some("badshape")}
    \/ cli.env.nozzle <= 0

C16_OutputOnlyAfterSuccess ==
    /\ cli.at_out # "original" =>
          /\ ~SetupBroken
          /\ proj = VerticalProjector(RampMesh, cli.env.nozzle)
          /\ cli.lines = GcodeLines(cli.env.gcode)
          /\ cli.i = Len(cli.lines) + 1
          /\ IsNone(cli.failed_at)
    /\ SetupBroken => (cli.i <= 1 /\ cli.result = <<>> /\ cli.at_out = "original")
    /\ ~IsNone(cli.failed_at) => (cli.result = <<>> /\ cli.at_out = "original")

\* the run has read the input, loaded the mesh and failed on the cell size
C16_Witness ==
    /\ cli.pc = "exit" /\ cli.failed_at = Some("project") /\ cli.err = Some("ValueError")
    /\ cli.text_read /\ cli.lines # <<>>
    /\ cli.at_out = "original" /\ cli.result = <<>>

(***************************************************************************)
(* C17.  The output is the in-order concatenation of one non-empty block   *)
(* per input line: the line itself for a line that is not rewritten, N >=  *)
(* 1 synthesised G1 lines for a rewritten move; so the output has at least *)
(* as many lines as the input processed so far.                            *)
(***************************************************************************)
\* b is a block the line l may contribute
BlockOf(l, b) ==
    \/ b = << l >>
    \/ /\ l.form = "code" /\ l.cmd = "G1"
       /\ b # <<>>
       /\ \A j \in DOMAIN b : ~b[j].raw /\ b[j].form = "code" /\ b[j].cmd = "G1"

\* os is the concatenation of one block per line of ls, in order
RECURSIVE Blocks(_, _)
Blocks(ls, os) ==
    IF ls = <<>> THEN os = <<>>
    ELSE \E k \in 1..Len(os) :
            /\ BlockOf(Head(ls), SubSeq(os, 1, k))
            /\ Blocks(Tail(ls), SubSeq(os, k + 1, Len(os)))

C17_OutputIsBlocks ==
    cli.i >= 1 =>
        /\ Blocks(SubSeq(cli.lines, 1, cli.i - 1), cli.result)
        /\ Len(cli.result) >= cli.i - 1
        /\ cli.i > 1 =>
              /\ out # <<>>
              /\ out = SubSeq(cli.result, Len(cli.result) - Len(out) + 1, Len(cli.result))
              /\ BlockOf(cli.lines[cli.i - 1], out)

\* a finished run whose output is longer than its input
C17_Witness ==
    /\ cli.pc = "exit" /\ cli.at_out = "rewritten"
    /\ Len(cli.result) > Len(cli.lines)
    /\ \E j \in DOMAIN cli.result : cli.result[j].raw

(***************************************************************************)
(* C18.  The interpreter starts in absolute XYZ and relative E.  The       *)
(* positioning flag changes only on a G90 or G91 line and the extrusion    *)
(* flag only on an M82 or M83 line; such a line is passed through as it is *)
(* and leaves position, accumulator, feed rate and layer context as they   *)
(* were.                                                                   *)
(***************************************************************************)
\* the line consumed by the step is one of the given command words
Consumes(words) == ln'.form = "code" /\ ln'.cmd \in words

ModeStep ==
    /\ st'.abs_xyz # st.abs_xyz => Consumes({"G90", "G91"})
    /\ st'.rel_e # st.rel_e => Consumes({"M82", "M83"})
    /\ Consumes({"G90"}) => st'.abs_xyz
    /\ Consumes({"G91"}) => ~st'.abs_xyz
    /\ Consumes({"M82"}) => ~st'.rel_e
    /\ Consumes({"M83"}) => st'.rel_e
    /\ Consumes({"G90", "G91", "M82", "M83"}) =>
          /\ out' = << ln' >>
          /\ st'.x = st.x /\ st'.y = st.y /\ st'.z = st.z
          /\ st'.e = st.e /\ st'.f = st.f
          /\ ctx' = ctx /\ last_layer_z' = last_layer_z

Overlaps(t, c) ==
    /\ proj.minx + c[1] * proj.cell <= SetMax(TriXs(t))
    /\ SetMin(TriXs(t)) < proj.minx + (c[1] + 1) * proj.cell
    /\ proj.miny + c[2] * proj.cell <= SetMax(TriYs(t))
    /\ SetMin(TriYs(t)) < proj.miny + (c[2] + 1) * proj.cell

\* the cells looked at: the footprint and a margin around it
CellWindow == ((-2)..6) \X ((-2)..3)

AllTriangles == [i \in DOMAIN scn.mesh |-> i]

C19_GridNeverMisses ==
    /\ \A i \in DOMAIN scn.mesh : \A c \in CellWindow :
          Overlaps(scn.mesh[i], c) =>
              /\ c \in DOMAIN proj.grid
              /\ \E k \in DOMAIN proj.grid[c] : proj.grid[c][k] = i
    /\ sOut # <<>> =>
          /\ sOut[1] = HitAmong(proj, AllTriangles, sIn.x, sIn.y, sIn.z0, sIn.max_dist)
          /\ proj = VerticalProjector(scn.mesh, scn.cfg.nozzle_diam)
          /\ proj.tri = scn.mesh

\* a hit in a cell three or more cells away from the low corner of the
\* triangle hit
C19_Witness ==
    /\ sOut # <<>> /\ ~IsNone(sOut[1])
    /\ proj.cell = SmallCell
    /\ CellIndex(sIn.x, proj.minx, proj.cell) >= 3
    /\ Len(Candidates(proj, sIn.x, sIn.y)) < 9 * Len(scn.mesh)

(***************************************************************************)
(* C20.  When no surface qualifies at a sub-segment end point (the point   *)
(* is outside the footprint, only degenerate triangles lie over it, or the *)
(* surface is outside the probe window) the offset is zero and the line is *)
(* emitted at the nominal layer Z: exactly the annotated value (as         *)
(* claimed), resp. that value as every emitted number is printed, to five  *)
(* decimals (as amended).  Every sub-segment of the move is emitted.       *)
(***************************************************************************)
\* the end point of sub-segment i of the move just rewritten
EndPoint(i, k) ==
    IF k = "X"
    THEN RAdd(RInt(prev.x), Rat((LnTarget("X", prev.x) - prev.x) * i, Len(out)))
    ELSE RAdd(RInt(prev.y), Rat((LnTarget("Y", prev.y) - prev.y) * i, Len(out)))

\* the probe distance in force, as a rational
ProbeReach ==
    IF IsNone(cfg.max_ray_dist)
    THEN Rat(LayerH * (cfg.max_dz_frac.n + cfg.max_dz_frac.d), cfg.max_dz_frac.d)
    ELSE RInt(Get(cfg.max_ray_dist))

\* triangle t lies over the end point of sub-segment i, inside the probe window
SurfaceAt(t, i) ==
    LET bc == barycentric_2d(EndPoint(i, "X"), EndPoint(i, "Y"), t[1], t[2], t[3])
    IN  /\ ~IsNone(bc)
        /\ RLe(RSub(RInt(LayerZ), Rat(1, EpsInv)), InterpolatedZ(t, Get(bc)))
        /\ RLe(InterpolatedZ(t, Get(bc)),
               RAdd(RAdd(RInt(LayerZ), ProbeReach), Rat(1, EpsInv)))

NoSurfaceAt(i) == \A j \in DOMAIN scn.mesh : ~SurfaceAt(scn.mesh[j], i)

\* the move is emitted whole: its end is the end of the last sub-segment
EmittedWhole ==
    /\ Emitted(Len(out), "X") = fmt_float(RInt(LnTarget("X", prev.x)))
    /\ Emitted(Len(out), "Y") = fmt_float(RInt(LnTarget("Y", prev.y)))

C20_NoHitExactNominalZ ==
    Rewritten =>
        /\ \A i \in DOMAIN out : NoSurfaceAt(i) => Emitted(i, "Z") = LayerZ
        /\ EmittedWhole

C20_NoHitPrintedNominalZ ==
    Rewritten =>
        /\ \A i \in DOMAIN out : NoSurfaceAt(i) => Emitted(i, "Z") = fmt_float(RInt(LayerZ))
        /\ EmittedWhole

\* three sub-segments: the first ends at the foot of the wall with the ramp
\* below the window, the second on the ramp, the third past the footprint
C20_Witness ==
    /\ Rewritten /\ Len(out) = 3
    /\ NoSurfaceAt(1) /\ ~NoSurfaceAt(2) /\ NoSurfaceAt(3)
    /\ Emitted(2, "Z") # Emitted(3, "Z")
    /\ Emitted(3, "Z") # LayerZ

(***************************************************************************)
(* C21.  A move that is passed through is executed at the same Z by a      *)
(* machine running the output as by a machine running the input, also      *)
(* after a rewritten move has emitted a corrected Z.  Stated for input     *)
(* programs that have brought the head to the annotated layer height.      *)
(***************************************************************************)
C21_PassThroughAtInputZ ==
    (IsG1 /\ PassedThrough /\ LayerKnown /\ mIn.z = LayerZ) => mOut.z = mIn.z

(***************************************************************************)
(* C22.  When a move is rewritten, the position the split starts from is   *)
(* the position of the machine before the move, whatever lines came        *)
(* before (G0 travel moves included), and every emitted end point lies on  *)
(* the straight segment from that position to the move's target.           *)
(***************************************************************************)
\* p lies on the segment from a to b
OnSegment(ax, ay, bx, by, px, py) ==
    /\ (bx - ax) * (py - ay) = (by - ay) * (px - ax)
    /\ (px - ax) * (px - bx) <= 0
    /\ (py - ay) * (py - by) <= 0

SplitFromMachinePosition ==
    Rewritten' =>
        /\ st.x = mOut.x /\ st.y = mOut.y
        /\ \A i \in DOMAIN out' :
              OnSegment(mOut.x, mOut.y, st'.x, st'.y,
                        Emitted(i, "X")', Emitted(i, "Y")')

C22_SplitFromMachinePosition == [][SplitFromMachinePosition]_vars

(***************************************************************************)
(* C23.  Corrections are never downward.  As claimed: every emitted Z is   *)
(* at least the nominal layer Z, up to the sampler tolerance of 1e-9.  As  *)
(* amended: every emitted Z is at least the nominal layer Z as it is       *)
(* printed, so at most half of the last printed decimal below it, and is   *)
(* the value the upper bound of the clamp alone would give.                *)
(***************************************************************************)
\* the clamp without its negative branch
ClampAbove(dz, dz_max) == IF RLt(dz_max, dz) THEN dz_max ELSE dz

\* the Z of sub-segment i with the offset bounded from above only
ZClampedAbove(i) ==
    LET z_hit == z_hit_above(proj, EndPoint(i, "X"), EndPoint(i, "Y"),
                             RInt(LayerZ), ProbeReach)
    IN  IF IsNone(z_hit) THEN RInt(LayerZ)
        ELSE RAdd(RInt(LayerZ),
                  ClampAbove(RSub(Get(z_hit), RInt(LayerZ)), DzMax(LayerH, cfg)))

\* triangle t lies over the end point of sub-segment i, below the nominal Z
SurfaceBelowAt(t, i) ==
    LET bc == barycentric_2d(EndPoint(i, "X"), EndPoint(i, "Y"), t[1], t[2], t[3])
    IN  /\ ~IsNone(bc)
        /\ RLt(InterpolatedZ(t, Get(bc)), RSub(RInt(LayerZ), Rat(1, EpsInv)))

C23_NeverBelowNominal ==
    Rewritten =>
        \A i \in DOMAIN out : Emitted(i, "Z") * EpsInv >= LayerZ * EpsInv - 1

C23_NeverBelowPrintedNominal ==
    Rewritten =>
        \A i \in DOMAIN out :
            /\ Emitted(i, "Z") >= fmt_float(RInt(LayerZ))
            /\ 2 * (LayerZ - Emitted(i, "Z")) <= Quantum
            /\ Emitted(i, "Z") = fmt_float(ZClampedAbove(i))

\* one end point over a surface that lies below the nominal Z, emitted at
\* the printed nominal Z and below the annotated one; another raised
C23_Witness ==
    /\ Rewritten
    /\ \E i \in DOMAIN out :
          /\ \E j \in DOMAIN scn.mesh : SurfaceBelowAt(scn.mesh[j], i)
          /\ Emitted(i, "Z") = fmt_float(RInt(LayerZ))
          /\ Emitted(i, "Z") < LayerZ
    /\ \E i \in DOMAIN out : Emitted(i, "Z") > LayerZ

====
